---- MODULE Spec2Model ----
(***************************************************************************)
(* Model of fastcrud/endpoint/helper.py: the CRUD method-set validator,    *)
(* the SQLAlchemy model introspection helpers and the FastAPI dependency   *)
(* wrapper.  Every helper is a function of its arguments; the only effect  *)
(* besides the return value is the deprecation warning of the dependency   *)
(* wrapper.  A behaviour is one task of the endpoint generator: one call   *)
(* of a helper, or a series of calls of the dependency wrapper.            *)
(***************************************************************************)
EXTENDS FiniteSets, Integers, Sequences

VARIABLES task, results, warnings

vars == <<task, results, warnings>>

(* Bounds of the input space. *)
MaxLen == 3
MaxCols == 3
MaxDepth == 3
MaxHooks == 2
MaxCalls == 2

(* Outcome of a call: a returned value or a raised exception. *)
Return(v) == [kind |-> "return", value |-> v]

Raise(exc, msg) == [kind |-> "raise", error |-> exc, message |-> msg]

(***************************************************************************)
(* CRUDMethods                                                             *)
(***************************************************************************)
valid_methods ==
    {"create", "read", "read_multi", "read_paginated", "update", "delete", "db_delete"}

(* Names outside the vocabulary used as inputs. *)
OtherNames == {"Create", "patch"}

MethodNames == valid_methods \cup OtherNames

(* The for loop of check_valid_method, from index i on. *)
RECURSIVE check_from(_, _)
check_from(values, i) ==
    IF i > Len(values)
    THEN Return(values)
    ELSE IF values[i] \notin valid_methods
         THEN Raise("ValueError", <<"Invalid CRUD method: ", values[i]>>)
         ELSE check_from(values, i + 1)

(* Faulty variant: the loop keeps going and reports the last offending value. *)
RECURSIVE check_from_last(_, _)
check_from_last(values, i) ==
    IF i < 1
    THEN Return(values)
    ELSE IF values[i] \notin valid_methods
         THEN Raise("ValueError", <<"Invalid CRUD method: ", values[i]>>)
         ELSE check_from_last(values, i - 1)

check_valid_method_last(values) == check_from_last(values, Len(values))

(* Faulty variant: the validator normalises the list by dropping repeated names. *)
RECURSIVE Dedup(_)
Dedup(s) ==
    IF s = <<>>
    THEN <<>>
    ELSE LET front == Dedup(SubSeq(s, 1, Len(s) - 1))
             last == s[Len(s)]
         IN IF \E k \in 1..Len(front) : front[k] = last
            THEN front
            ELSE Append(front, last)

check_valid_method_dedup(values) ==
    LET r == check_from(values, 1)
    IN IF r.kind = "return" THEN Return(Dedup(values)) ELSE r

check_valid_method(values) == check_from(values, 1)

(***************************************************************************)
(* SQLAlchemy models                                                       *)
(***************************************************************************)
ColumnNames == {"tenant_id", "id", "email", "name", "ssn"}

(* Column.unique is None unless the column was declared with unique=... *)
UniqueFlags == {"None", "True", "False"}

Truthy(flag) == flag = "True"

Columns == [name : ColumnNames, primary_key : BOOLEAN, unique : UniqueFlags]

(* A table: columns in declared order, names distinct. *)
Models ==
    {cols \in UNION {[1..n -> Columns] : n \in 1..MaxCols} :
        \A i, j \in 1..Len(cols) : cols[i].name = cols[j].name => i = j}

(* inspect(model).mapper.primary_key: the primary-key columns of the table. *)
mapper_primary_key(model) == SelectSeq(model, LAMBDA c : c.primary_key)

(* Faulty variant: the key columns come back in reverse order. *)
RECURSIVE Reverse(_)
Reverse(s) == IF s = <<>> THEN <<>> ELSE Append(Reverse(Tail(s)), Head(s))

_get_primary_keys_reversed(model) == Return(Reverse(mapper_primary_key(model)))

_get_primary_keys(model) == Return(mapper_primary_key(model))

_get_primary_key(model) ==
    LET keys == _get_primary_keys(model)
    IN IF keys.kind = "raise"
       THEN keys
       ELSE IF Len(keys.value) = 0
            THEN Raise("IndexError", <<"tuple index out of range">>)
            ELSE Return(keys.value[1].name)

(* Faulty variant: a column with unique=False counts as flagged. *)
_extract_unique_columns_not_none(model) ==
    Return(SelectSeq(model, LAMBDA column : column.unique # "None"))

_extract_unique_columns(model) ==
    Return(SelectSeq(model, LAMBDA column : Truthy(column.unique)))

(***************************************************************************)
(* Column types                                                            *)
(***************************************************************************)
NativeTypes == {"int", "str"}

(* What reading the python_type attribute of a type object does: it gives  *)
(* a native type, raises NotImplementedError (TypeEngine's default), or    *)
(* the object has no such attribute.                                       *)
NotImplemented == "NotImplementedError"

NoAttribute == "AttributeError"

(* A declared type is the chain type, type.impl, type.impl.impl, ... given *)
(* by what python_type does at each level; the last level has no impl.     *)
TypeChains ==
    {chain \in UNION {[1..n -> NativeTypes \cup {NotImplemented, NoAttribute}] : n \in 1..MaxDepth} :
        chain[1] # NoAttribute}

TypedColumns == [name : ColumnNames, type : TypeChains]

PyResult(outcome, consulted) ==
    [kind |-> outcome.kind,
     value |-> IF outcome.kind = "return" THEN outcome.value ELSE "",
     error |-> IF outcome.kind = "raise" THEN outcome.error ELSE "",
     message |-> IF outcome.kind = "raise" THEN outcome.message ELSE <<>>,
     consulted |-> consulted]

UnresolvedMessage(column) ==
    <<"The primary key column ", column.name,
      " uses a custom type without a defined python_type or suitable impl fallback.">>

(* Faulty variant: the impl fallback is tried before the type's own mapping. *)
_get_python_type_impl_first(column) ==
    LET type == column.type
    IN IF Len(type) >= 2 /\ type[2] \in NativeTypes
       THEN PyResult(Return(type[2]), <<2, 2>>)
       ELSE IF type[1] \in NativeTypes
            THEN PyResult(Return(type[1]), <<2, 1>>)
            ELSE PyResult(Raise("NotImplementedError", UnresolvedMessage(column)), <<2, 1>>)

_get_python_type(column) ==
    LET type == column.type
    IN IF type[1] \in NativeTypes
       THEN PyResult(Return(type[1]), <<1>>)
       ELSE (* except NotImplementedError *)
            IF Len(type) < 2
            THEN (* no impl attribute *)
                 PyResult(Raise("NotImplementedError", UnresolvedMessage(column)), <<1>>)
            ELSE IF type[2] = NotImplemented
                 THEN (* hasattr only swallows AttributeError *)
                      PyResult(Raise("NotImplementedError", <<>>), <<1, 2>>)
                 ELSE IF type[2] = NoAttribute
                      THEN PyResult(Raise("NotImplementedError", UnresolvedMessage(column)), <<1, 2>>)
                      ELSE PyResult(Return(type[2]), <<1, 2, 2>>)

(***************************************************************************)
(* Dependencies                                                            *)
(***************************************************************************)
Callables == {[kind |-> "callable", name |-> n] : n \in {"f1", "f2"}}

(* fastapi.Depends(func) *)
Depends(func) == [kind |-> "Depends", dependency |-> func, use_cache |-> TRUE]

(* Handles a caller built beforehand. *)
PreWrapped ==
    {[kind |-> "Depends", dependency |-> [kind |-> "callable", name |-> "f1"], use_cache |-> TRUE],
     [kind |-> "Depends", dependency |-> [kind |-> "callable", name |-> "f2"], use_cache |-> FALSE]}

IsDepends(func) == func.kind = "Depends"

None == [present |-> FALSE]

List(items) == [present |-> TRUE, items |-> items]

Map(s, Op(_)) == [i \in 1..Len(s) |-> Op(s[i])]

DeprecationWarning ==
    [category |-> "DeprecationWarning",
     message |-> "Passing a function wrapped in Depends directly to dependency handlers is deprecated"]

FuncsArgs ==
    {None} \cup {List(items) : items \in UNION {[1..n -> Callables \cup PreWrapped] : n \in 0..MaxHooks}}

(* Faulty variant: the warning is raised inside the loop, once per wrapped element. *)
_temporary_dependency_handling_per_element(funcs) ==
    IF funcs # None /\ \E i \in 1..Len(funcs.items) : IsDepends(funcs.items[i])
    THEN [value |-> List(Map(funcs.items, LAMBDA func : IF IsDepends(func) THEN func ELSE Depends(func))),
          warned |-> Map(SelectSeq(funcs.items, IsDepends), LAMBDA func : DeprecationWarning)]
    ELSE [value |-> None, warned |-> <<>>]

(* Faulty variant: every element is wrapped, also the ones that are handles already. *)
_temporary_dependency_handling_rewrap(funcs) ==
    IF funcs # None /\ \E i \in 1..Len(funcs.items) : IsDepends(funcs.items[i])
    THEN [value |-> List(Map(funcs.items, Depends)), warned |-> <<DeprecationWarning>>]
    ELSE [value |-> None, warned |-> <<>>]

_temporary_dependency_handling(funcs) ==
    IF funcs # None /\ \E i \in 1..Len(funcs.items) : IsDepends(funcs.items[i])
    THEN [value |-> List(Map(funcs.items, LAMBDA func : IF IsDepends(func) THEN func ELSE Depends(func))),
          warned |-> <<DeprecationWarning>>]
    ELSE [value |-> None, warned |-> <<>>]

(* Faulty variant: the test is "if funcs:", so an empty list is treated as absent. *)
_inject_dependencies_truthy(funcs) ==
    LET temp_handling == _temporary_dependency_handling(funcs)
    IN IF temp_handling.value # None
       THEN temp_handling
       ELSE IF funcs # None /\ Len(funcs.items) > 0
            THEN [value |-> List(Map(funcs.items, Depends)), warned |-> temp_handling.warned]
            ELSE [value |-> None, warned |-> temp_handling.warned]

_inject_dependencies(funcs) ==
    LET temp_handling == _temporary_dependency_handling(funcs)
    IN IF temp_handling.value # None
       THEN temp_handling
       ELSE IF funcs # None
            THEN [value |-> List(Map(funcs.items, Depends)), warned |-> temp_handling.warned]
            ELSE [value |-> None, warned |-> temp_handling.warned]


(***************************************************************************)
(* Tasks                                                                   *)
(***************************************************************************)
MethodLists == UNION {[1..n -> MethodNames] : n \in 0..MaxLen}

Init ==
    /\ \/ \E values \in MethodLists : task = [op |-> "check_valid_method", values |-> values]
       \/ \E model \in Models :
            \E op \in {"_get_primary_keys", "_get_primary_key", "_extract_unique_columns"} :
                task = [op |-> op, model |-> model]
       \/ \E column \in TypedColumns : task = [op |-> "_get_python_type", column |-> column]
       \/ \E calls \in UNION {[1..n -> FuncsArgs] : n \in 1..MaxCalls} :
            task = [op |-> "_inject_dependencies", calls |-> calls]
    /\ results = <<>>
    /\ warnings = <<>>

Validate ==
    /\ task.op = "check_valid_method"
    /\ results = <<>>
    /\ results' = <<check_valid_method(task.values)>>
    /\ UNCHANGED <<task, warnings>>

PrimaryKeys ==
    /\ task.op = "_get_primary_keys"
    /\ results = <<>>
    /\ results' = <<_get_primary_keys(task.model)>>
    /\ UNCHANGED <<task, warnings>>

PrimaryKey ==
    /\ task.op = "_get_primary_key"
    /\ results = <<>>
    /\ results' = <<_get_primary_key(task.model)>>
    /\ UNCHANGED <<task, warnings>>

ExtractUniqueColumns ==
    /\ task.op = "_extract_unique_columns"
    /\ results = <<>>
    /\ results' = <<_extract_unique_columns(task.model)>>
    /\ UNCHANGED <<task, warnings>>

PythonType ==
    /\ task.op = "_get_python_type"
    /\ results = <<>>
    /\ results' = <<_get_python_type(task.column)>>
    /\ UNCHANGED <<task, warnings>>

(* The next call of the series: its result is kept and what it warned is   *)
(* added to the warnings raised so far.                                    *)
InjectDependencies ==
    /\ task.op = "_inject_dependencies"
    /\ Len(results) < Len(task.calls)
    /\ LET call == _inject_dependencies(task.calls[Len(results) + 1])
       IN /\ results' = Append(results, call.value)
          /\ warnings' = warnings \o call.warned
    /\ UNCHANGED task

Next ==
    \/ Validate
    \/ PrimaryKeys
    \/ PrimaryKey
    \/ ExtractUniqueColumns
    \/ PythonType
    \/ InjectDependencies

Spec == Init /\ [][Next]_vars

(***************************************************************************)
(* Properties                                                              *)
(***************************************************************************)
Called(op) == task.op = op /\ Len(results) = 1

NoPrimaryKey(model) == \A i \in 1..Len(model) : ~model[i].primary_key

(* The k-th index, in increasing order, of a set of indices. *)
Nth(idx, k) == CHOOSE i \in idx : Cardinality({j \in idx : j < i}) = k - 1

(* s holds exactly the columns of model at the indices idx, in index order. *)
IsSelection(s, model, idx) ==
    /\ Len(s) = Cardinality(idx)
    /\ \A k \in 1..Len(s) : s[k] = model[Nth(idx, k)]

C2_FirstOffendingNamed ==
    (Called("check_valid_method") /\ \E i \in 1..Len(task.values) : task.values[i] \notin valid_methods)
        => LET first == Nth({i \in 1..Len(task.values) : task.values[i] \notin valid_methods}, 1)
           IN /\ results[1].kind = "raise"
              /\ results[1].error = "ValueError"
              /\ results[1].message[Len(results[1].message)] = task.values[first]

C2_Witness ==
    /\ Called("check_valid_method")
    /\ task.values = <<"create", "patch", "Create">>
    /\ results[1].kind = "raise"
    /\ results[1].message[2] = "patch"

(* C3: a list made only of vocabulary names (the empty list included) is   *)
(* returned as it was given: same length, same element at every index.     *)
C3_ValidReturnedUnchanged ==
    (Called("check_valid_method") /\ \A i \in 1..Len(task.values) : task.values[i] \in valid_methods)
        => /\ results[1].kind = "return"
           /\ Len(results[1].value) = Len(task.values)
           /\ \A i \in 1..Len(task.values) : results[1].value[i] = task.values[i]

C3_Witness ==
    /\ Called("check_valid_method")
    /\ task.values = <<"read", "create", "read">>
    /\ results[1].kind = "return"
    /\ results[1].value = <<"read", "create", "read">>

(* C4: a column whose type has no direct mapping and no usable impl        *)
(* mapping (impl missing, impl without python_type, or impl whose          *)
(* python_type is itself not implemented) fails with the error that names  *)
(* the column.                                                             *)
NoUsableMapping(type) ==
    /\ type[1] \notin NativeTypes
    /\ (Len(type) < 2 \/ type[2] \notin NativeTypes)

NamesColumn(result, column) ==
    /\ result.kind = "raise"
    /\ result.error = "NotImplementedError"
    /\ \E k \in 1..Len(result.message) : result.message[k] = column.name

C4_UnresolvedNamesColumn ==
    (Called("_get_python_type") /\ NoUsableMapping(task.column.type))
        => NamesColumn(results[1], task.column)

(* C5: the type's own mapping is returned when it exists and the impl is   *)
(* not looked at; without it, an available impl mapping is returned and    *)
(* nothing below the impl is looked at.                                    *)
C5_DirectThenOneLevel ==
    Called("_get_python_type") =>
        LET type == task.column.type
            r == results[1]
        IN /\ type[1] \in NativeTypes =>
                /\ r.kind = "return"
                /\ r.value = type[1]
                /\ \A k \in 1..Len(r.consulted) : r.consulted[k] = 1
           /\ (type[1] = NotImplemented /\ Len(type) >= 2 /\ type[2] \in NativeTypes) =>
                /\ r.kind = "return"
                /\ r.value = type[2]
                /\ \A k \in 1..Len(r.consulted) : r.consulted[k] <= 2

C5_Witness ==
    /\ Called("_get_python_type")
    /\ task.column.type = <<NotImplemented, "int", "str">>
    /\ results[1].kind = "return"
    /\ results[1].value = "int"

(* C6: with one or more primary-key columns, _get_primary_keys returns     *)
(* exactly the flagged columns in declared order and _get_primary_key the  *)
(* name of the first of them.                                              *)
C6_PrimaryKeysInOrder ==
    LET idx == {i \in 1..Len(task.model) : task.model[i].primary_key}
    IN /\ (Called("_get_primary_keys") /\ ~NoPrimaryKey(task.model)) =>
            /\ results[1].kind = "return"
            /\ IsSelection(results[1].value, task.model, idx)
       /\ (Called("_get_primary_key") /\ ~NoPrimaryKey(task.model)) =>
            /\ results[1].kind = "return"
            /\ results[1].value = task.model[Nth(idx, 1)].name

C6_Witness ==
    /\ Called("_get_primary_keys")
    /\ Len(task.model) = 3
    /\ task.model[1].name = "tenant_id" /\ task.model[1].primary_key
    /\ task.model[2].name = "name" /\ ~task.model[2].primary_key
    /\ task.model[3].name = "id" /\ task.model[3].primary_key
    /\ results[1].kind = "return"
    /\ results[1].value = <<task.model[1], task.model[3]>>

(* C7: in a series of _inject_dependencies calls, each call whose input    *)
(* holds a Depends instance adds exactly one deprecation warning, whatever *)
(* was warned before, and each other call adds none.                       *)
HasDepends(funcs) ==
    funcs.present /\ \E i \in 1..Len(funcs.items) : funcs.items[i].kind = "Depends"

C7_OneWarningPerLegacyCall ==
    [][(task.op = "_inject_dependencies" /\ Len(results') = Len(results) + 1) =>
        LET funcs == task.calls[Len(results) + 1]
        IN /\ Len(warnings') = Len(warnings) + (IF HasDepends(funcs) THEN 1 ELSE 0)
           /\ \A k \in 1..Len(warnings) : warnings'[k] = warnings[k]
           /\ \A k \in (Len(warnings) + 1)..Len(warnings') :
                warnings'[k].category = "DeprecationWarning"]_vars

C7_Witness ==
    /\ task.op = "_inject_dependencies"
    /\ Len(task.calls) = 2
    /\ Len(results) = 2
    /\ task.calls[1].present
    /\ Len(task.calls[1].items) = 2
    /\ \A i \in 1..2 : task.calls[1].items[i].kind = "Depends"
    /\ HasDepends(task.calls[2])
    /\ Len(warnings) = 2

(* C8: for a present input, the output has the input's length and at each  *)
(* index holds the input element itself when it is a Depends instance and  *)
(* Depends(element) otherwise.                                             *)
C8_ElementwiseWrap ==
    task.op = "_inject_dependencies" =>
        \A c \in 1..Len(results) :
            task.calls[c].present =>
                /\ results[c].present
                /\ Len(results[c].items) = Len(task.calls[c].items)
                /\ \A i \in 1..Len(task.calls[c].items) :
                    LET in == task.calls[c].items[i]
                        out == results[c].items[i]
                    IN /\ out.kind = "Depends"
                       /\ IF in.kind = "Depends"
                          THEN out = in
                          ELSE /\ out.dependency = in
                               /\ out.use_cache

C8_Witness ==
    /\ task.op = "_inject_dependencies"
    /\ Len(results) >= 1
    /\ task.calls[1].present
    /\ Len(task.calls[1].items) = 2
    /\ task.calls[1].items[1].kind = "callable"
    /\ task.calls[1].items[2].kind = "Depends"
    /\ ~task.calls[1].items[2].use_cache
    /\ results[1].items[1].dependency = task.calls[1].items[1]
    /\ results[1].items[2] = task.calls[1].items[2]

(* C9: an absent input gives an absent result and an empty list gives an   *)
(* empty list, which is not absent.                                        *)
C9_AbsentAndEmptyDistinct ==
    task.op = "_inject_dependencies" =>
        \A c \in 1..Len(results) :
            /\ ~task.calls[c].present => ~results[c].present
            /\ (task.calls[c].present /\ Len(task.calls[c].items) = 0) =>
                    (results[c].present /\ Len(results[c].items) = 0)

C9_Witness ==
    /\ task.op = "_inject_dependencies"
    /\ Len(results) = 2
    /\ ~task.calls[1].present
    /\ ~results[1].present
    /\ task.calls[2].present
    /\ Len(task.calls[2].items) = 0
    /\ results[2].present

(* C10: _extract_unique_columns returns exactly the columns flagged        *)
(* unique, each once, in declared order, and an empty sequence when none   *)
(* is flagged.                                                             *)
C10_UniqueColumnsInOrder ==
    Called("_extract_unique_columns") =>
        /\ results[1].kind = "return"
        /\ IsSelection(results[1].value, task.model,
                       {i \in 1..Len(task.model) : task.model[i].unique = "True"})

C10_Witness ==
    /\ Called("_extract_unique_columns")
    /\ Len(task.model) = 3
    /\ task.model[1].name = "email" /\ task.model[1].unique = "True"
    /\ task.model[2].name = "name" /\ task.model[2].unique = "False"
    /\ task.model[3].name = "ssn" /\ task.model[3].unique = "True"
    /\ results[1].value = <<task.model[1], task.model[3]>>
====
